---- MODULE Spec2Model ----
(***************************************************************************)
(* gtkwedit: the trace tree (Signal, Submodule, Group, Blank, Comment,     *)
(* Styled, bare-string implicit signal), the helpers _merge_path and       *)
(* _merge_style, the depth-first traversal _traverse_dom and the entry     *)
(* point write_gtkw_file, as a state machine over the calls made on the    *)
(* GTKWSave writer.                                                        *)
(*                                                                         *)
(* Python values: a str that is concatenated (signal and submodule names,  *)
(* paths) is a sequence of one-character strings; Optional[x] of such a    *)
(* value, and Optional[Style], is <<>> for None and <<x>> otherwise; None  *)
(* in a slot holding an opaque value (color, flags, alias, filters) is the *)
(* string "None".  A dict is a function whose domain is its key set.       *)
(***************************************************************************)
EXTENDS Integers, Sequences, FiniteSets, TLC

VARIABLES
    args,   \* the arguments of this write_gtkw_file call (read-only)
    pc,     \* position in write_gtkw_file
    file,   \* the output file handle: "unopened", "open", "closed"
    stack,  \* the call stack of _traverse_dom, innermost frame last
    calls,  \* the calls made on the writer so far, in order
    err     \* <<>>, or <<k>>: the exception raised by call number k (0: open)

vars == <<args, pc, file, stack, calls, err>>

NoneVal == "None"

(* ---------------------------------------------------------------------- *)
(* Bounds                                                                 *)
(* ---------------------------------------------------------------------- *)

\* Longest list of siblings in the generated trees.
MaxLen == 2

(* ---------------------------------------------------------------------- *)
(* Data model                                                             *)
(* ---------------------------------------------------------------------- *)

\* DataFmt(Enum): member name -> .value
DataFmt ==
    [HEX |-> "hex", DEC |-> "dec", BIN |-> "bin", OCT |-> "oct",
     ASCII |-> "ascii", REAL |-> "real", SIGNED |-> "signed"]

\* dict.get(key), None when the key is missing
Get(d, key) == IF key \in DOMAIN d THEN d[key] ELSE NoneVal

\* dict | dict: the keys of both, the right operand winning
DictUnion(a, b) ==
    [k \in (DOMAIN a) \cup (DOMAIN b) |-> IF k \in DOMAIN b THEN b[k] ELSE a[k]]

_ROOT_STYLE == [datafmt |-> "HEX", rjustify |-> TRUE]

Signal(name, alias, highlight, style, tff, tfp) ==
    [kind |-> "Signal", name |-> name, alias |-> alias, highlight |-> highlight,
     style |-> style, translate_filter_file |-> tff,
     translate_filter_process |-> tfp]

Submodule(name, children, style) ==
    [kind |-> "Submodule", name |-> name, children |-> children, style |-> style]

Group(name, children, closed, highlight, style) ==
    [kind |-> "Group", name |-> name, children |-> children, closed |-> closed,
     highlight |-> highlight, style |-> style]

Styled(children, style) ==
    [kind |-> "Styled", children |-> children, style |-> style]

Blank(analog_extend, highlight) ==
    [kind |-> "Blank", analog_extend |-> analog_extend, highlight |-> highlight]

Comment(comment, analog_extend, highlight) ==
    [kind |-> "Comment", comment |-> comment, analog_extend |-> analog_extend,
     highlight |-> highlight]

\* a bare str used as a trace
Str(value) == [kind |-> "str", value |-> value]

\* a list or tuple of traces
List(items) == [kind |-> "list", items |-> items]

\* the kinds of NestedTrace and of Trace
NestedKindsWithGroup ==
    {"str", "Signal", "Submodule", "Group", "Comment", "Blank", "Styled"}

NestedKinds == {"str", "Signal", "Submodule", "Comment", "Blank", "Styled"}

TraceKinds ==
    {"str", "Signal", "Submodule", "Group", "Comment", "Blank", "Styled"}

(* ---------------------------------------------------------------------- *)
(* Helpers                                                                *)
(* ---------------------------------------------------------------------- *)

_merge_path(parent, own) ==
    IF parent # <<>> THEN parent[1] \o <<".">> \o own ELSE own

_merge_style_parent_wins(parent, own) ==
    IF own # <<>> THEN DictUnion(own[1], parent) ELSE parent

_merge_style(parent, own) ==
    IF own # <<>> THEN DictUnion(parent, own[1]) ELSE parent

(* ---------------------------------------------------------------------- *)
(* Calls on the writer (GTKWSave)                                         *)
(* ---------------------------------------------------------------------- *)

\* Each call carries ok (FALSE: the call raised) and src, the kind of the
\* tree item it was made for (a history annotation, "" for the preamble).

\* save.blank(comment, analog_extend, highlight)
CommentBlank(item) ==
    [op |-> "blank", src |-> "Comment", ok |-> TRUE, label |-> <<item.comment>>,
     analog_extend |-> item.analog_extend, highlight |-> item.highlight]

\* save.blank(analog_extend=analog_extend, highlight=highlight)
BlankBlank(item) ==
    [op |-> "blank", src |-> "Blank", ok |-> TRUE, label |-> <<>>,
     analog_extend |-> item.analog_extend, highlight |-> item.highlight]

\* save.group(name, closed, highlight).__enter__: begin_group
GroupEnter(item) ==
    [op |-> "begin_group", src |-> "Group", ok |-> TRUE, gname |-> item.name,
     closed |-> item.closed, highlight |-> item.highlight]

\* the matching end_group
EndGroup(g) ==
    [op |-> "end_group", src |-> "Group", ok |-> TRUE, gname |-> g.name,
     closed |-> g.closed, highlight |-> g.highlight]

\* case Signal(...): style = _merge_style(parent_style, style); save.trace(...)
SignalTrace(item, parent_style, parent_path) ==
    LET style == _merge_style(parent_style, item.style)
    IN  [op |-> "trace", src |-> "Signal", ok |-> TRUE,
         name |-> _merge_path(parent_path, item.name),
         alias |-> item.alias,
         color |-> Get(style, "color"),
         datafmt |-> DataFmt[Get(style, "datafmt")],
         highlight |-> item.highlight,
         rjustify |-> Get(style, "rjustify"),
         extraflags |-> Get(style, "extraflags"),
         translate_filter_file |-> item.translate_filter_file,
         translate_filter_process |-> item.translate_filter_process]

\* case str(): save.trace(path, color=..., datafmt=..., rjustify=...,
\* extraflags=...), the other parameters at GTKWSave.trace's defaults
StrTrace(item, parent_style, parent_path) ==
    [op |-> "trace", src |-> "str", ok |-> TRUE,
     name |-> _merge_path(parent_path, item.value),
     alias |-> NoneVal,
     color |-> Get(parent_style, "color"),
     datafmt |-> DataFmt[Get(parent_style, "datafmt")],
     highlight |-> FALSE,
     rjustify |-> Get(parent_style, "rjustify"),
     extraflags |-> Get(parent_style, "extraflags"),
     translate_filter_file |-> NoneVal,
     translate_filter_process |-> NoneVal]

\* gtkw.comment(f"Auto-generated from {source_file}")
CommentCall(source_file) ==
    [op |-> "comment", src |-> "", ok |-> TRUE,
     text |-> <<"Auto-generated from ", source_file>>]

\* gtkw.dumpfile(str(vcd_file), kwargs.get("vcd_abs", True))
DumpfileCall(a) ==
    [op |-> "dumpfile", src |-> "", ok |-> TRUE, dump_path |-> a.vcd_file,
     abspath |-> IF a.kwargs.vcd_abs = <<>> THEN TRUE ELSE a.kwargs.vcd_abs[1]]

\* gtkw.zoom_markers(zoom, marker, kwargs=kwargs.get("named_markers", dict()))
ZoomMarkersCall(a) ==
    [op |-> "zoom_markers", src |-> "", ok |-> TRUE, zoom |-> a.zoom,
     marker |-> a.marker,
     named |-> IF a.kwargs.named_markers = <<>> THEN "{}"
               ELSE a.kwargs.named_markers[1]]

(* ---------------------------------------------------------------------- *)
(* _traverse_dom                                                          *)
(* ---------------------------------------------------------------------- *)

\* isinstance(dom, Sequence): a list or a tuple, and also a str
IsSequence(dom) == dom.kind \in {"list", "str"}

\* what `for item in dom` yields: the elements of a list, the one-character
\* strings of a str
Iterate(dom) ==
    IF dom.kind = "list" THEN dom.items
    ELSE [k \in 1..Len(dom.value) |-> Str(<<dom.value[k]>>)]

NormalizeWrapStr(dom) ==
    IF dom.kind # "list" THEN <<dom>> ELSE Iterate(dom)

\* if not isinstance(dom, Sequence): dom = [dom]
Normalize(dom) ==
    IF ~IsSequence(dom) THEN <<dom>> ELSE Iterate(dom)

\* A frame of _traverse_dom: the items of dom, the index of the next one, the
\* inherited style and path, and, when the call is the body of a
\* `with save.group(...)`, that group's arguments.
Frame(dom, parent_style, parent_path, group) ==
    [items |-> Normalize(dom), i |-> 1, parent_style |-> parent_style,
     parent_path |-> parent_path, group |-> group]

Top == stack[Len(stack)]

Item == Top.items[Top.i]

\* the loop moves on to the next item of the innermost frame
Advance(st) == [st EXCEPT ![Len(st)].i = @ + 1]

EnterLeaky(st, dom, style, path, group) ==
    Append([st EXCEPT ![Len(st)].i = @ + 1,
                      ![Len(st)].parent_style = style,
                      ![Len(st)].parent_path = path],
           Frame(dom, style, path, group))

\* the recursive call _traverse_dom(save, children, style, path)
Enter(st, dom, style, path, group) ==
    Append(Advance(st), Frame(dom, style, path, group))

WithExitOnRaiseOnly(frame, log, raising) ==
    IF frame.group # <<>> /\ raising
    THEN Append(log, EndGroup(frame.group[1])) ELSE log

WithExitOnReturnOnly(frame, log, raising) ==
    IF frame.group # <<>> /\ ~raising
    THEN Append(log, EndGroup(frame.group[1])) ELSE log

\* leaving the `with save.group(...)` block around a frame, by return or by
\* an exception: the region ends
WithExit(frame, log, raising) ==
    IF frame.group # <<>> THEN Append(log, EndGroup(frame.group[1])) ELSE log

(* ---------------------------------------------------------------------- *)
(* Inputs                                                                 *)
(* ---------------------------------------------------------------------- *)

Name(c) == <<c>>

StrAB == Str(<<"a", "b">>)

StrQ == Str(<<"q">>)

SignalS == Signal(Name("s"), NoneVal, FALSE, <<>>, NoneVal, NoneVal)

SignalX ==
    Signal(<<"x", "y">>, "al", TRUE, <<[color |-> "BLUE"]>>, "filter.txt", "proc")

\* One leaf of each kind, and a bare str of one and of two characters.
Leaves == {Comment("note", FALSE, TRUE), Blank(TRUE, FALSE), SignalX, StrAB, StrQ}

\* A list of at most MaxLen siblings: one element of X at any position, the
\* others the implicit signal q.
Lists(X) ==
    {<<>>} \cup
    UNION {{[k \in 1..n |-> IF k = p THEN x ELSE StrQ] : x \in X, p \in 1..n} :
           n \in 1..MaxLen}

\* `Sequence[T] | T`: a single node or a list of nodes
Doms(X) == X \cup {List(l) : l \in Lists(X)}

\* The containers of a universe (a set of kinds) over the children D.
Containers(kinds, D) ==
    (IF "Group" \in kinds
     THEN {Group("grp", d, TRUE, FALSE, <<[color |-> "RED"]>>) : d \in D}
     ELSE {})
    \cup {Submodule(Name("m"), d, <<>>) : d \in D}
    \cup {Styled(d, [datafmt |-> "BIN", rjustify |-> FALSE]) : d \in D}

\* Group.children is of the NestedTrace universe; Submodule[T] and Styled[T]
\* keep the universe T they are in.
Nodes1(kinds) == Leaves \cup Containers(kinds, Doms(Leaves))

Nodes2(kinds) ==
    Leaves
    \cup (IF "Group" \in kinds
          THEN {Group("grp", d, TRUE, FALSE, <<[color |-> "RED"]>>) :
                    d \in Doms(Nodes1(NestedKinds))}
          ELSE {})
    \cup {Submodule(Name("m"), d, <<>>) : d \in Doms(Nodes1(kinds))}
    \cup {Styled(d, [datafmt |-> "BIN", rjustify |-> FALSE]) :
              d \in Doms(Nodes1(kinds))}

NoKwargs == [vcd_abs |-> <<>>, named_markers |-> <<>>]

Args(traces, source_file, root_style, root_module, kwargs) ==
    [file_name |-> "out.gtkw", vcd_file |-> "dump.vcd", traces |-> traces,
     source_file |-> source_file, zoom |-> 0, marker |-> -1,
     root_style |-> root_style, root_module |-> root_module, kwargs |-> kwargs]

\* Trees of every shape, with the default keyword arguments.
ShapeInputs ==
    {Args(t, <<>>, _ROOT_STYLE, <<>>, NoKwargs) : t \in Doms(Nodes2(TraceKinds))}

\* Style values: every field present or missing, None where it is allowed.
Styles ==
    {[color |-> "RED"],
     [color |-> NoneVal],
     [datafmt |-> "DEC"],
     [rjustify |-> FALSE, extraflags |-> "F1"],
     [color |-> "GREEN", extraflags |-> NoneVal],
     [color |-> "BLUE", datafmt |-> "OCT", rjustify |-> TRUE, extraflags |-> "F2"]}

OptStyles == {<<>>} \cup {<<st>> : st \in Styles}

RootStyles ==
    {_ROOT_STYLE,
     [color |-> "YELLOW", datafmt |-> "BIN", rjustify |-> FALSE, extraflags |-> "F3"]}

\* A chain Submodule > Styled > Group > (Signal, implicit signal) under every
\* combination of styles.
StyleInputs ==
    {Args(List(<<Submodule(Name("m"),
                           Styled(Group("grp",
                                        List(<<Signal(Name("s"), NoneVal, FALSE, c,
                                                      NoneVal, NoneVal),
                                               StrQ>>),
                                        FALSE, FALSE, <<>>),
                                  b[1]),
                           a),
                 SignalS>>),
          <<>>, r, <<>>, NoKwargs) :
        a \in OptStyles, b \in OptStyles \ {<<>>}, c \in OptStyles, r \in RootStyles}
    \cup
    {Args(Group("grp", Signal(Name("s"), NoneVal, FALSE, c, NoneVal, NoneVal),
                FALSE, TRUE, g),
          <<>>, r, <<>>, NoKwargs) :
        g \in OptStyles, c \in OptStyles, r \in RootStyles}

\* The keyword arguments of write_gtkw_file over a few small trees.
EntryInputs ==
    {Args(t, sf, r, m, kw) :
        t \in {List(<<>>), StrAB, SignalX,
               List(<<Submodule(Name("t"), List(<<SignalS, StrAB>>), <<>>)>>),
               List(<<Group("grp", List(<<SignalS, StrQ>>), FALSE, FALSE, <<>>),
                      Blank(FALSE, FALSE)>>)},
        sf \in {<<>>, <<"design.py">>},
        r \in RootStyles,
        m \in {<<>>, <<Name("r")>>, <<(<<>>)>>, <<(<<"u", ".", "v">>)>>},
        kw \in {NoKwargs, [vcd_abs |-> <<FALSE>>, named_markers |-> <<"{a: 1}">>]}}

\* The worked examples: a Group of two Signals, two Groups side by side,
\* Submodule "top" holding Signal "sig", a Styled wrapper over Signals.
ExampleInputs ==
    {Args(t, <<>>, _ROOT_STYLE, <<>>, NoKwargs) :
        t \in {Group("grp", List(<<SignalS, SignalX>>), FALSE, FALSE, <<>>),
               List(<<Group("g1", SignalS, FALSE, FALSE, <<>>),
                      Comment("note", FALSE, FALSE),
                      Group("g2", List(<<StrQ, Blank(FALSE, FALSE)>>), TRUE, TRUE,
                            <<[color |-> "RED"]>>)>>),
               Submodule(<<"t", "o", "p">>,
                         Signal(<<"s", "i", "g">>, NoneVal, FALSE, <<>>, NoneVal,
                                NoneVal),
                         <<>>),
               Styled(List(<<SignalS, SignalX>>), [color |-> "RED"])}}

Inputs == ShapeInputs \cup StyleInputs \cup EntryInputs \cup ExampleInputs

(* ---------------------------------------------------------------------- *)
(* write_gtkw_file and the steps of _traverse_dom                         *)
(* ---------------------------------------------------------------------- *)

Init ==
    /\ args \in Inputs
    /\ pc = "open"
    /\ file = "unopened"
    /\ stack = <<>>
    /\ calls = <<>>
    /\ err = <<>>

\* A call on the writer returns, or raises and the exception starts to
\* propagate from where the call was made.
Made(call, ok) == Append(calls, [call EXCEPT !.ok = ok])

Raise ==
    /\ err' = <<Len(calls) + 1>>
    /\ pc' = "raise"

\* with open(file_name, "wt", encoding="utf-8") as fjel: gtkw = GTKWSave(fjel)
OpenFile ==
    /\ pc = "open"
    /\ \E ok \in BOOLEAN :
         IF ok
         THEN file' = "open" /\ pc' = "comment" /\ err' = err
         ELSE file' = file /\ pc' = "failed" /\ err' = <<0>>
    /\ UNCHANGED <<args, stack, calls>>

\* if source_file is not None: gtkw.comment(...)
WriteComment ==
    /\ pc = "comment"
    /\ IF args.source_file # <<>>
       THEN \E ok \in BOOLEAN :
              /\ calls' = Made(CommentCall(args.source_file[1]), ok)
              /\ IF ok THEN pc' = "dumpfile" /\ err' = err ELSE Raise
       ELSE calls' = calls /\ pc' = "dumpfile" /\ err' = err
    /\ UNCHANGED <<args, file, stack>>

WriteDumpfile ==
    /\ pc = "dumpfile"
    /\ \E ok \in BOOLEAN :
         /\ calls' = Made(DumpfileCall(args), ok)
         /\ IF ok THEN pc' = "zoom" /\ err' = err ELSE Raise
    /\ UNCHANGED <<args, file, stack>>

\* gtkw.zoom_markers(...), then the call _traverse_dom(gtkw, traces,
\* root_style, root_module)
WriteZoomMarkers ==
    /\ pc = "zoom"
    /\ \E ok \in BOOLEAN :
         /\ calls' = Made(ZoomMarkersCall(args), ok)
         /\ IF ok
            THEN /\ pc' = "traverse"
                 /\ err' = err
                 /\ stack' = <<Frame(args.traces, args.root_style,
                                     args.root_module, <<>>)>>
            ELSE Raise /\ stack' = stack
    /\ UNCHANGED <<args, file>>

AtItem(kind) ==
    /\ pc = "traverse"
    /\ stack # <<>>
    /\ Top.i <= Len(Top.items)
    /\ Item.kind = kind

\* A leaf: one call on the writer; the loop moves on when it returns.
Leaf(call) ==
    /\ \E ok \in BOOLEAN :
         /\ calls' = Made(call, ok)
         /\ IF ok
            THEN stack' = Advance(stack) /\ pc' = pc /\ err' = err
            ELSE stack' = stack /\ Raise
    /\ UNCHANGED <<args, file>>

VisitComment == AtItem("Comment") /\ Leaf(CommentBlank(Item))

VisitBlank == AtItem("Blank") /\ Leaf(BlankBlank(Item))

VisitGroup ==
    /\ AtItem("Group")
    /\ LET style == _merge_style(Top.parent_style, Item.style)
       IN  \E ok \in BOOLEAN :
             /\ calls' = Made(GroupEnter(Item), ok)
             /\ IF ok
                THEN /\ stack' = Enter(stack, Item.children, style, Top.parent_path,
                                       <<[name |-> Item.name, closed |-> Item.closed,
                                          highlight |-> Item.highlight]>>)
                     /\ pc' = pc
                     /\ err' = err
                ELSE stack' = stack /\ Raise
    /\ UNCHANGED <<args, file>>

VisitSubmodule ==
    /\ AtItem("Submodule")
    /\ LET style == _merge_style(Top.parent_style, Item.style)
       IN  stack' = Enter(stack, Item.children, style,
                          <<_merge_path(Top.parent_path, Item.name)>>, <<>>)
    /\ UNCHANGED <<args, pc, file, calls, err>>

VisitSignal ==
    AtItem("Signal") /\ Leaf(SignalTrace(Item, Top.parent_style, Top.parent_path))

VisitStyled ==
    /\ AtItem("Styled")
    /\ LET style == _merge_style(Top.parent_style, <<Item.style>>)
       IN  stack' = Enter(stack, Item.children, style, Top.parent_path, <<>>)
    /\ UNCHANGED <<args, pc, file, calls, err>>

VisitStr ==
    AtItem("str") /\ Leaf(StrTrace(Item, Top.parent_style, Top.parent_path))

\* The loop of the innermost frame is over: the call returns, to the `with`
\* block of its caller when it has one, and at last to write_gtkw_file.
Return ==
    /\ pc = "traverse"
    /\ stack # <<>>
    /\ Top.i > Len(Top.items)
    /\ calls' = WithExit(Top, calls, FALSE)
    /\ stack' = SubSeq(stack, 1, Len(stack) - 1)
    /\ pc' = IF Len(stack) = 1 THEN "exit" ELSE pc
    /\ UNCHANGED <<args, file, err>>

\* An exception leaves the innermost frame; nothing catches it.
Propagate ==
    /\ pc = "raise"
    /\ stack # <<>>
    /\ calls' = WithExit(Top, calls, TRUE)
    /\ stack' = SubSeq(stack, 1, Len(stack) - 1)
    /\ UNCHANGED <<args, pc, file, err>>

WithOpenExitOnReturnOnly(f, raising) == IF raising THEN f ELSE "closed"

\* leaving `with open(...)`: the file object's __exit__ closes it
WithOpenExit(f, raising) == "closed"

\* The end of `with open(...)`: the file is closed, by return or by exception.
CloseFile ==
    /\ \/ pc = "exit"
       \/ pc = "raise" /\ stack = <<>>
    /\ file' = WithOpenExit(file, err # <<>>)
    /\ pc' = IF err = <<>> THEN "done" ELSE "failed"
    /\ UNCHANGED <<args, stack, calls, err>>

Next ==
    \/ OpenFile
    \/ WriteComment
    \/ WriteDumpfile
    \/ WriteZoomMarkers
    \/ VisitComment
    \/ VisitBlank
    \/ VisitGroup
    \/ VisitSubmodule
    \/ VisitSignal
    \/ VisitStyled
    \/ VisitStr
    \/ Return
    \/ Propagate
    \/ CloseFile

Spec == Init /\ [][Next]_vars

(* ---------------------------------------------------------------------- *)
(* The listing of a tree                                                  *)
(* ---------------------------------------------------------------------- *)

\* The calls of the traversal proper (the preamble's have src = "").
IsFlattenCall(c) == c.src # ""

FlattenCalls == SelectSeq(calls, IsFlattenCall)

Map(f(_), s) == [k \in 1..Len(s) |-> f(s[k])]

IsPrefix(s, t) == Len(s) <= Len(t) /\ \A k \in 1..Len(s) : s[k] = t[k]

RECURSIVE Join(_)
\* the segments joined by dots
Join(segs) ==
    IF segs = <<>> THEN <<>>
    ELSE IF Len(segs) = 1 THEN segs[1]
    ELSE segs[1] \o <<".">> \o Join(Tail(segs))

\* a single node stands for the one-element list holding it
AsList(dom) == IF dom.kind = "list" THEN dom.items ELSE <<dom>>

OwnStyle(node) ==
    IF node.kind = "Styled" THEN <<node.style>>
    ELSE IF node.kind \in {"Signal", "Submodule", "Group"} THEN node.style
    ELSE <<>>

RECURSIVE WalkList(_, _, _, _), WalkNode(_, _, _, _)

\* The depth-first, left-to-right events of a tree: a leaf with the styles of
\* its ancestors (outermost first) and the names of its enclosing
\* Submodules, and the begin and end of each Group.  With split, a bare str
\* in the place of a list counts as the list of its characters.
WalkNode(n, chain, segs, split) ==
    IF n.kind \in {"Comment", "Blank", "Signal", "str"}
    THEN <<[ev |-> "leaf", node |-> n, chain |-> chain, segs |-> segs]>>
    ELSE LET inner == chain \o OwnStyle(n)
             items == IF split THEN Normalize(n.children) ELSE AsList(n.children)
         IN  IF n.kind = "Group"
             THEN <<[ev |-> "begin", node |-> n]>>
                  \o WalkList(items, inner, segs, split)
                  \o <<[ev |-> "end", node |-> n]>>
             ELSE IF n.kind = "Submodule"
             THEN WalkList(items, inner, Append(segs, n.name), split)
             ELSE WalkList(items, inner, segs, split)

WalkList(items, chain, segs, split) ==
    IF items = <<>> THEN <<>>
    ELSE WalkNode(Head(items), chain, segs, split)
         \o WalkList(Tail(items), chain, segs, split)

RootSegs == IF args.root_module = <<>> THEN <<>> ELSE <<args.root_module[1]>>

\* the listing of the input tree
Listing == WalkList(AsList(args.traces), <<>>, RootSegs, FALSE)

\* the listing of the items the traversal iterates over
ListingAsIterated == WalkList(Normalize(args.traces), <<>>, RootSegs, TRUE)

\* The value of a style field at a leaf: that of the innermost style on the
\* chain that has the field, else the root style's, else None.
Resolve(field, chain, root) ==
    LET having == {k \in 1..Len(chain) : field \in DOMAIN chain[k]}
    IN  IF having = {} THEN Get(root, field)
        ELSE chain[CHOOSE k \in having : \A j \in having : j <= k][field]

LeafName(n) == IF n.kind = "str" THEN n.value ELSE n.name

\* the call the listing expects for an event
ExpectedCall(e) ==
    IF e.ev = "begin" THEN GroupEnter(e.node)
    ELSE IF e.ev = "end" THEN EndGroup(e.node)
    ELSE IF e.node.kind = "Comment" THEN CommentBlank(e.node)
    ELSE IF e.node.kind = "Blank" THEN BlankBlank(e.node)
    ELSE LET chain == e.chain \o OwnStyle(e.node)
             sig == e.node.kind = "Signal"
         IN  [op |-> "trace", src |-> e.node.kind, ok |-> TRUE,
              name |-> Join(Append(e.segs, LeafName(e.node))),
              alias |-> IF sig THEN e.node.alias ELSE NoneVal,
              color |-> Resolve("color", chain, args.root_style),
              datafmt |-> DataFmt[Resolve("datafmt", chain, args.root_style)],
              highlight |-> IF sig THEN e.node.highlight ELSE FALSE,
              rjustify |-> Resolve("rjustify", chain, args.root_style),
              extraflags |-> Resolve("extraflags", chain, args.root_style),
              translate_filter_file |->
                  IF sig THEN e.node.translate_filter_file ELSE NoneVal,
              translate_filter_process |->
                  IF sig THEN e.node.translate_filter_process ELSE NoneVal]

Expected == Map(ExpectedCall, Listing)

ExpectedAsIterated == Map(ExpectedCall, ListingAsIterated)

\* the traversal has returned to write_gtkw_file
Returned == pc \in {"exit", "done"}

\* Supporting invariant: over the items it iterates, the traversal makes
\* exactly the calls of the listing, in order.
TraversalFollowsIteratedListing ==
    /\ pc = "traverse" => IsPrefix(FlattenCalls, ExpectedAsIterated)
    /\ Returned => FlattenCalls = ExpectedAsIterated

(* ---------------------------------------------------------------------- *)
(* Properties                                                             *)
(* ---------------------------------------------------------------------- *)

IsTrace(c) == c.op = "trace"

IsSignalCall(c) == c.op = "trace" /\ c.src = "Signal"

IsStrCall(c) == c.op = "trace" /\ c.src = "str"

IsBeginOk(c) == c.op = "begin_group" /\ c.ok

IsEnd(c) == c.op = "end_group"

Count(P(_), s) == Len(SelectSeq(s, P))

\* the number of group regions open after the first n calls
DepthAfter(n) ==
    Count(IsBeginOk, SubSeq(calls, 1, n)) - Count(IsEnd, SubSeq(calls, 1, n))

OpenDepth == DepthAfter(Len(calls))

\* Some children field, or the tree itself, is a bare str that is not one
\* character long.
RECURSIVE HasStrDom(_)
HasStrDom(dom) ==
    \/ dom.kind = "str" /\ Len(dom.value) # 1
    \/ \E k \in 1..Len(AsList(dom)) :
         LET n == AsList(dom)[k]
         IN  n.kind \in {"Group", "Submodule", "Styled"} /\ HasStrDom(n.children)

\* Some children field, or the tree itself, is a single node.
RECURSIVE HasSingle(_)
HasSingle(dom) ==
    \/ dom.kind # "list"
    \/ \E k \in 1..Len(dom.items) :
         dom.items[k].kind \in {"Group", "Submodule", "Styled"}
         /\ HasSingle(dom.items[k].children)

\* what identifies a call in the listing: the operation, the kind of node
\* and, for a trace, its path
ShapeOf(c) ==
    IF c.op = "trace" THEN [op |-> c.op, src |-> c.src, leaf |-> c.name]
    ELSE [op |-> c.op, src |-> c.src]

\* C1: the calls of one traversal are exactly the depth-first, left-to-right
\* listing of the input tree (one blank per Comment/Blank, one trace per
\* Signal or implicit signal, begin and end around each Group's children),
\* and at every moment a prefix of it.
C1_DocumentOrder ==
    LET got == Map(ShapeOf, FlattenCalls)
        want == Map(ShapeOf, Expected)
    IN  /\ pc = "traverse" => IsPrefix(got, want)
        /\ Returned => got = want

Failed == {k \in 1..Len(calls) : ~calls[k].ok}

\* the begin_group of the innermost region open when call k was made
OpenerOf(k) ==
    calls[CHOOSE j \in 1..(k - 1) :
            /\ IsBeginOk(calls[j])
            /\ \A i \in (j + 1)..(k - 1) : ~IsBeginOk(calls[i])]

\* C2: when a trace or blank call raises inside a Group, the only calls
\* made afterwards are end_group calls, the Group's end_group has been made
\* (with the arguments of its begin_group) once the exception has left the
\* traversal, and the exception that propagates is the one that call raised.
C2_GroupClosedOnFailure ==
    \A k \in Failed :
        (calls[k].op \in {"trace", "blank"} /\ DepthAfter(k - 1) > 0) =>
            /\ err = <<k>>
            /\ pc \in {"raise", "failed"}
            /\ \A j \in (k + 1)..Len(calls) : calls[j].op = "end_group"
            /\ stack = <<>> =>
                 /\ Len(calls) = k + DepthAfter(k - 1)
                 /\ calls[Len(calls)].ok
                 /\ calls[k + 1].gname = OpenerOf(k).gname
                 /\ calls[k + 1].closed = OpenerOf(k).closed
                 /\ calls[k + 1].highlight = OpenerOf(k).highlight

\* A trace raised inside a Group that has a later sibling: the region was
\* ended and the sibling's call never made.
C2_Witness ==
    /\ pc = "failed"
    /\ \E k \in Failed :
         /\ calls[k].op = "trace"
         /\ DepthAfter(k - 1) = 1
         /\ Len(calls) = k + 1
    /\ ExpectedAsIterated[Len(ExpectedAsIterated)].op = "trace"

RECURSIVE WrapDom(_)
\* the tree with every single node replaced by the one-element list of it
WrapDom(dom) ==
    List([k \in 1..Len(AsList(dom)) |->
            LET n == AsList(dom)[k]
            IN  IF n.kind \in {"Group", "Submodule", "Styled"}
                THEN [n EXCEPT !.children = WrapDom(@)]
                ELSE n])

\* the calls the traversal makes for the tree t (TraversalFollowsIteratedListing)
ProducedFor(t) ==
    Map(ExpectedCall, WalkList(Normalize(t), <<>>, RootSegs, TRUE))

\* C3: where the tree or a children field is a single node, the traversal
\* makes exactly the calls it makes for the one-element list of that node.
C3_SingleNodeAsOneElementList ==
    (Returned /\ HasSingle(args.traces)) =>
        FlattenCalls = ProducedFor(WrapDom(args.traces))

PathOf(c) == c.name

\* C4: the paths of the trace calls are, in order, the dot-joined root
\* prefix, enclosing Submodule names and leaf name of the leaves of the tree.
C4_TracePaths ==
    LET got == Map(PathOf, SelectSeq(FlattenCalls, IsTrace))
        want == Map(PathOf, SelectSeq(Expected, IsTrace))
    IN  /\ pc = "traverse" => IsPrefix(got, want)
        /\ Returned => got = want

IsSignalLeaf(e) == e.ev = "leaf" /\ e.node.kind = "Signal"

StyleOf(c) ==
    [color |-> c.color, datafmt |-> c.datafmt, rjustify |-> c.rjustify,
     extraflags |-> c.extraflags]

\* C5: each of color, datafmt, rjustify and extraflags of a Signal's trace
\* call is the value of the innermost style on the chain (own style, then
\* the enclosing nodes') that has the field, the root style's when none has,
\* and None when the root style has not got it either.
C5_StyleResolution ==
    LET got == Map(StyleOf, SelectSeq(FlattenCalls, IsSignalCall))
        want == Map(StyleOf, Map(ExpectedCall, SelectSeq(Listing, IsSignalLeaf)))
    IN  IF Returned THEN got = want ELSE IsPrefix(got, want)

\* Submodule {color}, Styled {datafmt}, Signal {rjustify, extraflags}: the
\* trace has the fields of all three levels.
C5_Witness ==
    /\ Returned
    /\ \E k \in 1..Len(calls) :
         /\ IsSignalCall(calls[k])
         /\ StyleOf(calls[k]) = [color |-> "RED", datafmt |-> "dec",
                                 rjustify |-> FALSE, extraflags |-> "F1"]
    /\ args.root_style = _ROOT_STYLE

\* C6: at most one group region is open at any moment.
C6_GroupsDoNotNest == OpenDepth <= 1

\* Inside a Group, below a Submodule or Styled of that Group.
C6_Witness ==
    /\ pc = "traverse"
    /\ OpenDepth = 1
    /\ Len(stack) >= 3
    /\ stack[2].group # <<>>
    /\ Top.group = <<>>

Preamble ==
    IF args.source_file # <<>> THEN <<"comment", "dumpfile", "zoom_markers">>
    ELSE <<"dumpfile", "zoom_markers">>

\* C7: write_gtkw_file opens the file, makes the comment call iff a source
\* file is named, then one dumpfile call, then one zoom_markers call, then
\* traverses with the root style and root module; every traversal call
\* comes after the zoom_markers call, and the file is closed on every way
\* out once it was opened.
C7_EntryOrder ==
    /\ \A k \in 1..Len(calls) :
         IF k <= Len(Preamble) THEN calls[k].op = Preamble[k]
         ELSE /\ calls[k].op \in {"trace", "blank", "begin_group", "end_group"}
              /\ calls[Len(Preamble)].ok
    /\ calls # <<>> => file # "unopened"
    /\ stack # <<>> =>
         /\ stack[1].items = Normalize(args.traces)
         /\ stack[1].parent_style = args.root_style
         /\ stack[1].parent_path = args.root_module
         /\ stack[1].group = <<>>
    /\ pc \in {"traverse", "exit", "done"} => Len(calls) >= Len(Preamble)
    /\ pc = "done" => file = "closed" /\ Failed = {}
    /\ pc = "failed" => file = (IF err = <<0>> THEN "unopened" ELSE "closed")
    /\ pc \in {"comment", "dumpfile", "zoom", "traverse", "raise", "exit"} =>
         file = "open"

\* A writer call of the traversal raised with a source file named: the
\* whole preamble was written and the file was closed.
C7_Witness ==
    /\ pc = "failed"
    /\ file = "closed"
    /\ args.source_file # <<>>
    /\ Len(calls) > 3
    /\ ~calls[Len(calls)].ok

IsBeginEv(e) == e.ev = "begin"

Skeleton(c) ==
    IF c.op \in {"begin_group", "end_group"}
    THEN [op |-> c.op, gname |-> c.gname, closed |-> c.closed,
          highlight |-> c.highlight]
    ELSE [op |-> "call"]

\* C8: each Group makes one begin_group and one end_group, the calls made
\* for its children are the ones between the two, and when the traversal
\* returns every region is ended.
C8_GroupBrackets ==
    LET got == Map(Skeleton, FlattenCalls)
        want == Map(Skeleton, ExpectedAsIterated)
        groups == Count(IsBeginEv, Listing)
    IN  /\ pc = "traverse" => IsPrefix(got, want)
        /\ Returned =>
              /\ got = want
              /\ Count(IsBeginOk, calls) = groups
              /\ Count(IsEnd, calls) = groups
              /\ OpenDepth = 0

Op(c) == c.op

\* A Group of two Signals: begin_group, trace, trace, end_group.
C8_Witness ==
    /\ Returned
    /\ args.traces.kind = "Group"
    /\ Map(Op, FlattenCalls) = <<"begin_group", "trace", "trace", "end_group">>
    /\ FlattenCalls[2].src = "Signal"
    /\ FlattenCalls[3].src = "Signal"

IsStrLeaf(e) == e.ev = "leaf" /\ e.node.kind = "str"

RECURSIVE FoldStyle(_, _)
FoldStyle(style, chain) ==
    IF chain = <<>> THEN style
    ELSE FoldStyle(_merge_style(style, <<Head(chain)>>), Tail(chain))

RECURSIVE FoldPath(_, _)
FoldPath(path, segs) ==
    IF segs = <<>> THEN path
    ELSE FoldPath(<<_merge_path(path, Head(segs))>>, Tail(segs))

\* the trace call of the Signal of the same name, the other fields at their
\* defaults, in the place of the implicit signal of event e
AsDefaultSignal(e) ==
    [SignalTrace(Signal(e.node.value, NoneVal, FALSE, <<>>, NoneVal, NoneVal),
                 FoldStyle(args.root_style, e.chain), FoldPath(<<>>, e.segs))
        EXCEPT !.src = "str"]

\* C9: the trace calls made for the implicit signals of the tree are, in
\* order, the calls that default Signals of the same names make in their
\* places.
C9_ImplicitAsDefaultSignal ==
    Returned =>
        SelectSeq(FlattenCalls, IsStrCall)
            = Map(AsDefaultSignal, SelectSeq(Listing, IsStrLeaf))

\* C10: a step of the traversal changes neither the inherited style, nor the
\* inherited path, nor the items of any frame that stays on the stack.
C10_NoLeakBetweenSiblings ==
    [][\A k \in 1..Len(stack) :
         k <= Len(stack') =>
            /\ stack'[k].parent_style = stack[k].parent_style
            /\ stack'[k].parent_path = stack[k].parent_path
            /\ stack'[k].items = stack[k].items]_vars

\* Back at a later sibling after a Styled and after a Submodule subtree,
\* with the style and path of the root.
C10_Witness ==
    /\ pc = "traverse"
    /\ Len(stack) = 1
    /\ Top.i = 2
    /\ Top.i <= Len(Top.items)
    /\ Top.items[1].kind = "Submodule"
    /\ Top.items[1].children.kind = "Styled"
    /\ Top.parent_style = args.root_style
    /\ Top.parent_path = args.root_module

\* Supporting invariant: C1, C3, C4 and C9 hold of every tree in which no
\* bare str of another length than one stands in the place of a list.
ListingHoldsWithoutStrDom ==
    ~HasStrDom(args.traces) =>
        /\ C1_DocumentOrder
        /\ C3_SingleNodeAsOneElementList
        /\ C4_TracePaths
        /\ C9_ImplicitAsDefaultSignal
        /\ (pc = "traverse" => IsPrefix(FlattenCalls, Expected))
        /\ (Returned => FlattenCalls = Expected)

====
